---------------------------- MODULE Spec2Model ----------------------------
(***************************************************************************)
(* A model of the Go package uuid (src/uuid.go, latest revision, and the   *)
(* namespace file src/unnamed/part_000): RFC4122 identifiers of versions   *)
(* 1, 3, 4 and 5, their textual form and the process-wide generation       *)
(* state.                                                                  *)
(*                                                                         *)
(* Values wider than 31 bits are kept as big-endian byte tuples: an int64  *)
(* is 8 bytes, a uint32 word of the digests is 4 bytes, a UUID is 16.      *)
(* Strings are tuples of one-character strings; names are byte tuples.     *)
(***************************************************************************)
EXTENDS Integers, Sequences, FiniteSets, TLC

(***************************************************************************)
(* Bit operations of Go's integer types (&, |, ^) on naturals.             *)
(***************************************************************************)
\* the one element of a singleton set.  Written Only({ e(x) : x \in {a} }),
\* it is e(a) with a evaluated once, however often e mentions x.
Only(S) == CHOOSE r \in S : TRUE

RECURSIVE BitAnd(_, _)
BitAnd(a, b) ==
  Only({ IF x = 0 \/ y = 0 THEN 0
         ELSE (x % 2) * (y % 2) + 2 * BitAnd(x \div 2, y \div 2) : x \in {a}, y \in {b} })

RECURSIVE BitOr(_, _)
BitOr(a, b) ==
  Only({ IF x = 0 THEN y
         ELSE IF y = 0 THEN x
         ELSE (IF x % 2 = 1 \/ y % 2 = 1 THEN 1 ELSE 0) + 2 * BitOr(x \div 2, y \div 2) :
         x \in {a}, y \in {b} })

RECURSIVE BitXor(_, _)
BitXor(a, b) ==
  IF a = 0 THEN b
  ELSE IF b = 0 THEN a
  ELSE ((a + b) % 2) + 2 * BitXor(a \div 2, b \div 2)

Pow2(n) == 2 ^ n

(***************************************************************************)
(* uint32 words as 4 bytes, most significant first.                        *)
(***************************************************************************)
WAnd(x, y) == <<BitAnd(x[1], y[1]), BitAnd(x[2], y[2]), BitAnd(x[3], y[3]), BitAnd(x[4], y[4])>>
WOr(x, y)  == <<BitOr(x[1], y[1]), BitOr(x[2], y[2]), BitOr(x[3], y[3]), BitOr(x[4], y[4])>>
WXor(x, y) == <<BitXor(x[1], y[1]), BitXor(x[2], y[2]), BitXor(x[3], y[3]), BitXor(x[4], y[4])>>
WNot(x)    == <<255 - x[1], 255 - x[2], 255 - x[3], 255 - x[4]>>

WAdd(x, y) ==
  LET s4 == x[4] + y[4]
      s3 == x[3] + y[3] + s4 \div 256
      s2 == x[2] + y[2] + s3 \div 256
      s1 == x[1] + y[1] + s2 \div 256
  IN  <<s1 % 256, s2 % 256, s3 % 256, s4 % 256>>

WRotl(x, n) ==
  LET k == n \div 8
      r == n % 8
      y == [i \in 1..4 |-> x[((i - 1 + k) % 4) + 1]]
  IN  [i \in 1..4 |-> ((y[i] * Pow2(r)) % 256) + (y[(i % 4) + 1] \div Pow2(8 - r))]

(***************************************************************************)
(* Message padding shared by MD5 and SHA-1: 0x80, zeros up to 56 mod 64,   *)
(* then the bit length in 8 bytes (given here most significant first).     *)
(***************************************************************************)
Zeros(n) == [i \in 1..n |-> 0]

BitLen64(msg) ==
  LET n == 8 * Len(msg)
  IN  <<0, 0, 0, 0, (n \div 16777216) % 256, (n \div 65536) % 256, (n \div 256) % 256, n % 256>>

Reverse(s) == [i \in 1..Len(s) |-> s[Len(s) + 1 - i]]

HashPad(msg, lenBytes) == msg \o <<128>> \o Zeros((55 - Len(msg)) % 64) \o lenBytes

(***************************************************************************)
(* crypto/md5 (RFC 1321), as used by GenerateV3: h.Write(ns), h.Write(name)*)
(* and h.Sum(nil).                                                         *)
(***************************************************************************)
md5K ==
  <<
    <<215,106,164,120>>, <<232,199,183,86>>, <<36,32,112,219>>, <<193,189,206,238>>,
    <<245,124,15,175>>, <<71,135,198,42>>, <<168,48,70,19>>, <<253,70,149,1>>,
    <<105,128,152,216>>, <<139,68,247,175>>, <<255,255,91,177>>, <<137,92,215,190>>,
    <<107,144,17,34>>, <<253,152,113,147>>, <<166,121,67,142>>, <<73,180,8,33>>,
    <<246,30,37,98>>, <<192,64,179,64>>, <<38,94,90,81>>, <<233,182,199,170>>,
    <<214,47,16,93>>, <<2,68,20,83>>, <<216,161,230,129>>, <<231,211,251,200>>,
    <<33,225,205,230>>, <<195,55,7,214>>, <<244,213,13,135>>, <<69,90,20,237>>,
    <<169,227,233,5>>, <<252,239,163,248>>, <<103,111,2,217>>, <<141,42,76,138>>,
    <<255,250,57,66>>, <<135,113,246,129>>, <<109,157,97,34>>, <<253,229,56,12>>,
    <<164,190,234,68>>, <<75,222,207,169>>, <<246,187,75,96>>, <<190,191,188,112>>,
    <<40,155,126,198>>, <<234,161,39,250>>, <<212,239,48,133>>, <<4,136,29,5>>,
    <<217,212,208,57>>, <<230,219,153,229>>, <<31,162,124,248>>, <<196,172,86,101>>,
    <<244,41,34,68>>, <<67,42,255,151>>, <<171,148,35,167>>, <<252,147,160,57>>,
    <<101,91,89,195>>, <<143,12,204,146>>, <<255,239,244,125>>, <<133,132,93,209>>,
    <<111,168,126,79>>, <<254,44,230,224>>, <<163,1,67,20>>, <<78,8,17,161>>,
    <<247,83,126,130>>, <<189,58,242,53>>, <<42,215,210,187>>, <<235,134,211,145>>
  >>

md5S ==
  <<7, 12, 17, 22, 7, 12, 17, 22, 7, 12, 17, 22, 7, 12, 17, 22,
    5, 9, 14, 20, 5, 9, 14, 20, 5, 9, 14, 20, 5, 9, 14, 20,
    4, 11, 16, 23, 4, 11, 16, 23, 4, 11, 16, 23, 4, 11, 16, 23,
    6, 10, 15, 21, 6, 10, 15, 21, 6, 10, 15, 21, 6, 10, 15, 21>>

md5Init == << <<103,69,35,1>>, <<239,205,171,137>>, <<152,186,220,254>>, <<16,50,84,118>> >>

\* word j (0-based) of a 64-byte block, read little-endian
LEWord(blk, j) == <<blk[4 * j + 4], blk[4 * j + 3], blk[4 * j + 2], blk[4 * j + 1]>>

md5F(i, b, c, d) ==
  IF i < 16 THEN WOr(WAnd(b, c), WAnd(WNot(b), d))
  ELSE IF i < 32 THEN WOr(WAnd(d, b), WAnd(WNot(d), c))
  ELSE IF i < 48 THEN WXor(WXor(b, c), d)
  ELSE WXor(c, WOr(b, WNot(d)))

md5G(i) ==
  IF i < 16 THEN i
  ELSE IF i < 32 THEN (5 * i + 1) % 16
  ELSE IF i < 48 THEN (3 * i + 5) % 16
  ELSE (7 * i) % 16

RECURSIVE md5Rounds(_, _, _)
md5Rounds(st, blk, i) ==
  IF i = 64 \/ Len(st) # 4 THEN st
  ELSE LET f == WAdd(WAdd(WAdd(md5F(i, st[2], st[3], st[4]), st[1]), md5K[i + 1]),
                     LEWord(blk, md5G(i)))
       IN  md5Rounds(<<st[4], WAdd(st[2], WRotl(f, md5S[i + 1])), st[2], st[3]>>, blk, i + 1)

RECURSIVE md5Blocks(_, _)
md5Blocks(st, data) ==
  IF Len(data) = 0 THEN st
  ELSE LET r == md5Rounds(st, SubSeq(data, 1, 64), 0)
       IN  md5Blocks(<<WAdd(st[1], r[1]), WAdd(st[2], r[2]), WAdd(st[3], r[3]), WAdd(st[4], r[4])>>,
                     SubSeq(data, 65, Len(data)))

Md5Sum(msg) ==
  LET st == md5Blocks(md5Init, HashPad(msg, Reverse(BitLen64(msg))))
  IN  Reverse(st[1]) \o Reverse(st[2]) \o Reverse(st[3]) \o Reverse(st[4])

(***************************************************************************)
(* crypto/sha1 (FIPS 180-1), as used by GenerateV5; the digest is 20 bytes.*)
(***************************************************************************)
sha1Init ==
  << <<103,69,35,1>>, <<239,205,171,137>>, <<152,186,220,254>>, <<16,50,84,118>>,
     <<195,210,225,240>> >>

BEWord(blk, j) == <<blk[4 * j + 1], blk[4 * j + 2], blk[4 * j + 3], blk[4 * j + 4]>>

RECURSIVE sha1Schedule(_, _)
sha1Schedule(w, i) ==
  IF i = 80 THEN w
  ELSE sha1Schedule(
         Append(w, WRotl(WXor(WXor(w[i - 2], w[i - 7]), WXor(w[i - 13], w[i - 15])), 1)),
         i + 1)

sha1F(i, b, c, d) ==
  IF i < 20 THEN WOr(WAnd(b, c), WAnd(WNot(b), d))
  ELSE IF i < 40 THEN WXor(WXor(b, c), d)
  ELSE IF i < 60 THEN WOr(WOr(WAnd(b, c), WAnd(b, d)), WAnd(c, d))
  ELSE WXor(WXor(b, c), d)

sha1K(i) ==
  IF i < 20 THEN <<90,130,121,153>>
  ELSE IF i < 40 THEN <<110,217,235,161>>
  ELSE IF i < 60 THEN <<143,27,188,220>>
  ELSE <<202,98,193,214>>

RECURSIVE sha1Rounds(_, _, _)
sha1Rounds(st, w, i) ==
  IF i = 80 \/ Len(st) # 5 THEN st
  ELSE LET t == WAdd(WAdd(WAdd(WAdd(WRotl(st[1], 5), sha1F(i, st[2], st[3], st[4])), st[5]),
                          sha1K(i)), w[i + 1])
       IN  sha1Rounds(<<t, st[1], WRotl(st[2], 30), st[3], st[4]>>, w, i + 1)

RECURSIVE sha1Blocks(_, _)
sha1Blocks(st, data) ==
  IF Len(data) = 0 THEN st
  ELSE LET blk == SubSeq(data, 1, 64)
           r   == sha1Rounds(st, sha1Schedule([j \in 1..16 |-> BEWord(blk, j - 1)], 16), 0)
       IN  sha1Blocks(<<WAdd(st[1], r[1]), WAdd(st[2], r[2]), WAdd(st[3], r[3]),
                        WAdd(st[4], r[4]), WAdd(st[5], r[5])>>,
                      SubSeq(data, 65, Len(data)))

Sha1Sum(msg) ==
  LET st == sha1Blocks(sha1Init, HashPad(msg, BitLen64(msg)))
  IN  st[1] \o st[2] \o st[3] \o st[4] \o st[5]

(***************************************************************************)
(* Byte tuples: Go's fixed-width integers wider than 31 bits, most         *)
(* significant byte first, and Go's arrays (index i of Go is i + 1 here).  *)
(***************************************************************************)
BytesAnd(a, b) == [i \in 1..Len(a) |-> BitAnd(a[i], b[i])]
BytesOr(a, b)  == [i \in 1..Len(a) |-> BitOr(a[i], b[i])]

\* a + b modulo 2^(8 * Len(a)), byte by byte with carry
RECURSIVE AddCarry(_, _, _, _)
AddCarry(a, b, i, c) ==
  IF i = 0 THEN <<>>
  ELSE Only({ Append(AddCarry(a, b, i - 1, t \div 256), t % 256) : t \in {a[i] + b[i] + c} })

BytesAdd(a, b) == AddCarry(a, b, Len(a), 0)

\* a / d for a small divisor d (Go's integer division of a non-negative value)
RECURSIVE DivFrom(_, _, _, _)
DivFrom(a, d, i, r) ==
  IF i > Len(a) THEN <<>>
  ELSE Only({ <<t \div d>> \o DivFrom(a, d, i + 1, t % d) : t \in {r * 256 + a[i]} })

BytesDiv(a, d) == DivFrom(a, d, 1, 0)

\* a <= b, both non-negative and of the same width
RECURSIVE LeFrom(_, _, _)
LeFrom(a, b, i) ==
  IF i > Len(a) THEN TRUE
  ELSE IF a[i] < b[i] THEN TRUE
  ELSE IF a[i] > b[i] THEN FALSE
  ELSE LeFrom(a, b, i + 1)

BytesLe(a, b) == LeFrom(a, b, 1)

\* a >> k (logical; the values shifted here are non-negative)
BytesShr(a, k) ==
  LET q == k \div 8
      r == k % 8
      y == [i \in 1..Len(a) |-> IF i - q >= 1 THEN a[i - q] ELSE 0]
  IN  [i \in 1..Len(a) |->
         (((IF i > 1 THEN y[i - 1] ELSE 0) * Pow2(8 - r)) % 256) + (y[i] \div Pow2(r))]

\* conversions byte(x), uint16(x), uint32(x): the low bytes of x
LowBytes(a, n) == SubSeq(a, Len(a) - n + 1, Len(a))
ToByte(a) == a[Len(a)]

\* an int64 holding a small natural
Int64(n) == <<0, 0, 0, 0, (n \div 16777216) % 256, (n \div 65536) % 256, (n \div 256) % 256, n % 256>>

(***************************************************************************)
(* type UUID struct { u [16]byte }, NilUUID's zero value, and the four     *)
(* predefined namespaces.                                                  *)
(***************************************************************************)
ZeroUUID == Zeros(16)

B(u, i) == u[i + 1]
SetB(u, i, v) == [u EXCEPT ![i + 1] = v]

\* a copy that stops after the first eight bytes
CopyHalf(dst, src) ==
  [i \in 1..Len(dst) |-> IF i <= Len(src) /\ i <= 8 THEN src[i] ELSE dst[i]]

\* copy(dst, src): min(len(dst), len(src)) leading elements are overwritten
Copy(dst, src) == [i \in 1..Len(dst) |-> IF i <= Len(src) THEN src[i] ELSE dst[i]]

\* copy(dst[from:], src)
CopyAt(dst, from, src) ==
  [i \in 1..Len(dst) |-> IF i > from /\ i - from <= Len(src) THEN src[i - from] ELSE dst[i]]

InitNamespace_DNS  == <<107, 167, 184, 16, 157, 173, 17, 209, 128, 180, 0, 192, 79, 212, 48, 200>>
InitNamespace_URL  == <<107, 167, 184, 17, 157, 173, 17, 209, 128, 180, 0, 192, 79, 212, 48, 200>>
InitNamespace_OID  == <<107, 167, 184, 18, 157, 173, 17, 209, 128, 180, 0, 192, 79, 212, 48, 200>>
InitNamespace_X500 == <<107, 167, 184, 20, 157, 173, 17, 209, 128, 180, 0, 192, 79, 212, 48, 200>>

\* the low four bits of byte 6 in place of the high four
VersionLowBits(u) == B(u, 6) % 16

(***************************************************************************)
(* func (u UUID) Version() byte                                            *)
(***************************************************************************)
Version(u) == B(u, 6) \div 16

\* the two most significant bits of clock_seq_hi_and_reserved
Variant(u) == B(u, 8) \div 64

\* the digits of "%02X"
UpperHex == <<"0", "1", "2", "3", "4", "5", "6", "7", "8", "9", "A", "B", "C", "D", "E", "F">>

(***************************************************************************)
(* func (u UUID) String() string: sixteen %02x verbs in groups 8-4-4-4-12. *)
(***************************************************************************)
LowerHex == <<"0", "1", "2", "3", "4", "5", "6", "7", "8", "9", "a", "b", "c", "d", "e", "f">>

\* "%x" in place of "%02x": no leading zero
FmtX(b) == IF b < 16 THEN <<LowerHex[b + 1]>> ELSE <<LowerHex[(b \div 16) + 1], LowerHex[(b % 16) + 1]>>

\* Sprintf("%02x", b)
Fmt02x(b) == <<LowerHex[(b \div 16) + 1], LowerHex[(b % 16) + 1]>>

RECURSIVE FmtBytes(_, _, _)
FmtBytes(u, i, j) == IF i > j THEN <<>> ELSE Fmt02x(B(u, i)) \o FmtBytes(u, i + 1, j)

String(u) ==
  FmtBytes(u, 0, 3) \o <<"-">> \o FmtBytes(u, 4, 5) \o <<"-">> \o FmtBytes(u, 6, 7)
    \o <<"-">> \o FmtBytes(u, 8, 9) \o <<"-">> \o FmtBytes(u, 10, 15)

(***************************************************************************)
(* fmt.Sscanf(s, "%02x%02x%02x%02x-%02x%02x-%02x%02x-%02x%02x-%02x...",    *)
(* &u.u[0], ..., &u.u[15]) as Parse uses it.  Each %02x verb skips leading *)
(* spaces, then takes one or two hexadecimal digits of either case and     *)
(* stores the byte at once; a literal - must match the next character;     *)
(* input left over after the last verb is not looked at.                   *)
(***************************************************************************)
HexChars ==
  {"0", "1", "2", "3", "4", "5", "6", "7", "8", "9", "a", "b", "c", "d", "e", "f",
   "A", "B", "C", "D", "E", "F"}

HexVal(c) ==
  CASE c = "0" -> 0  [] c = "1" -> 1  [] c = "2" -> 2  [] c = "3" -> 3
    [] c = "4" -> 4  [] c = "5" -> 5  [] c = "6" -> 6  [] c = "7" -> 7
    [] c = "8" -> 8  [] c = "9" -> 9
    [] c \in {"a", "A"} -> 10  [] c \in {"b", "B"} -> 11  [] c \in {"c", "C"} -> 12
    [] c \in {"d", "D"} -> 13  [] c \in {"e", "E"} -> 14  [] c \in {"f", "F"} -> 15

\* ss.SkipSpace: the position of the first character at or after pos that is no space
RECURSIVE SkipSpace(_, _)
SkipSpace(s, pos) ==
  IF pos <= Len(s) /\ s[pos] = " " THEN SkipSpace(s, pos + 1) ELSE pos

\* one %02x verb at pos: [ok, val, next]
ScanHexByte(s, pos) ==
  LET p == SkipSpace(s, pos)
  IN  IF p > Len(s) \/ s[p] \notin HexChars
      THEN [ok |-> FALSE, val |-> 0, next |-> p]
      ELSE IF p + 1 <= Len(s) /\ s[p + 1] \in HexChars
           THEN [ok |-> TRUE, val |-> 16 * HexVal(s[p]) + HexVal(s[p + 1]), next |-> p + 2]
           ELSE [ok |-> TRUE, val |-> HexVal(s[p]), next |-> p + 1]

\* the verbs for u.u[k..15], each preceded by its literal - where the format has one
RECURSIVE Sscanf(_, _, _, _)
Sscanf(s, pos, k, u) ==
  IF k = 16 THEN [u |-> u, err |-> FALSE]
  ELSE LET lit == k \in {4, 6, 8, 10}
           bad == lit /\ (pos > Len(s) \/ s[pos] # "-")
           r   == ScanHexByte(s, IF lit THEN pos + 1 ELSE pos)
       IN  IF bad \/ ~r.ok THEN [u |-> u, err |-> TRUE]
           ELSE Sscanf(s, r.next, k + 1, SetB(u, k, r.val))

(***************************************************************************)
(* func (u *UUID) Parse(s string) bool: the new contents of *u and the     *)
(* value returned, which is err != nil.                                    *)
(***************************************************************************)
Parse(u, s) == Sscanf(s, 1, 0, u)

(***************************************************************************)
(* Inputs of the model.                                                    *)
(***************************************************************************)
\* bound: at most this many GenerateV1 calls in one behaviour of Spec
MaxV1Calls == 2

\* bound: the clock is read at NanoBase + k * 50ns for k in 0..MaxClockStep,
\* so that consecutive readings fall in the same 100ns tick or in the next
MaxClockStep == 2

\* time.Now().UTC().UnixNano() at 2017-07-03 12:04:51.40973 UTC, as an int64
NanoBase == <<20, 205, 208, 126, 50, 33, 25, 208>>

NanoReadings(maxStep) == { BytesAdd(NanoBase, Int64(50 * k)) : k \in 0..maxStep }

\* what crypto/rand may deliver for a read of n bytes: three of the 256^n
\* fills, all bits clear, all bits set, and bytes that differ from each other
RandKinds == {"zeros", "ones", "mixed"}

RandFill(kind, n) ==
  [i \in 1..n |-> CASE kind = "zeros" -> 0
                    [] kind = "ones"  -> 255
                    [] OTHER          -> (37 * i + 11) % 256]

RandRead(n) == { RandFill(kind, n) : kind \in RandKinds }

Goroutines == {"g1", "g2"}

\* the variables of type UUID or Namespace that calls may take as receiver:
\* one local variable per goroutine (named as the goroutine) and the globals
Namespaces == {"Namespace_DNS", "Namespace_URL", "Namespace_OID", "Namespace_X500"}
Globals == Namespaces \cup {"NilUUID"}

NameA == <<97, 46, 99, 111, 109>>
NameB == <<98, 46, 99, 111, 109>>
EmptyName == <<>>
Names == {EmptyName, NameA, NameB}
NsInputs == {InitNamespace_DNS, InitNamespace_URL}

(***************************************************************************)
(* The digests of ns || name for the namespaces and names above, as        *)
(* crypto/md5 and crypto/sha1 return them.  Init checks every entry        *)
(* against Md5Sum and Sha1Sum, so the tables are those functions           *)
(* restricted to the inputs of the model.                                  *)
(***************************************************************************)
md5Known ==
     (<<InitNamespace_DNS, NameA>> :>
        <<48, 100, 213, 171, 27, 230, 60, 82, 122, 172, 80, 199, 127, 96, 20, 187>>) @@
     (<<InitNamespace_DNS, NameB>> :>
        <<25, 125, 254, 136, 155, 18, 49, 58, 9, 81, 126, 114, 247, 18, 253, 32>>) @@
     (<<InitNamespace_URL, NameA>> :>
        <<49, 42, 57, 199, 37, 225, 70, 57, 192, 47, 140, 160, 40, 32, 82, 158>>) @@
     (<<InitNamespace_URL, NameB>> :>
        <<167, 192, 38, 97, 236, 144, 54, 134, 46, 167, 62, 255, 174, 138, 201, 77>>)

sha1Known ==
     (<<InitNamespace_DNS, NameA>> :>
        <<175, 129, 202, 55, 93, 136, 43, 69, 205, 27, 245, 71, 16, 71, 153, 233, 1, 233, 76, 175>>) @@
     (<<InitNamespace_DNS, NameB>> :>
        <<137, 172, 221, 227, 8, 134, 118, 247, 230, 229, 48, 115, 112, 228, 179, 43, 3, 188, 163, 32>>) @@
     (<<InitNamespace_URL, NameA>> :>
        <<38, 19, 57, 92, 20, 85, 50, 29, 68, 11, 98, 64, 88, 173, 180, 157, 27, 60, 186, 161>>) @@
     (<<InitNamespace_URL, NameB>> :>
        <<127, 13, 253, 201, 238, 190, 18, 101, 61, 29, 38, 207, 46, 133, 162, 45, 70, 22, 54, 132>>)

DigestsChecked ==
  \A p \in DOMAIN md5Known :
    /\ md5Known[p] = Md5Sum(p[1] \o p[2])
    /\ sha1Known[p] = Sha1Sum(p[1] \o p[2])

\* the digest with h.Write(ns.u[:]) taking the DNS namespace whatever ns is
md5DigestOneNs(ns, name) == md5Known[<<InitNamespace_DNS, name>>]

\* h := md5.New(); h.Write(ns.u[:]); h.Write([]byte(name)); h.Sum(nil)
md5Digest(ns, name) == md5Known[<<ns, name>>]

\* h := sha1.New(); h.Write(ns.u[:]); h.Write([]byte(name)); h.Sum(nil)
sha1Digest(ns, name) == sha1Known[<<ns, name>>]

(***************************************************************************)
(* The generators as functions of what they read.                          *)
(***************************************************************************)
OFFSETNS == <<1, 178, 29, 210, 19, 129, 64, 0>>

\* clockSeq = (clockSeq + 1) & 0x3FFF, on a uint16
BumpClockSeq(cs) == BitAnd((cs + 1) % 65536, 16383)

\* getTimestampV1 with t < lastTime in place of t <= lastTime
getTimestampV1Strict(nano, lt, cs) ==
  Only({ [t |-> t, lastTime |-> t,
          clockSeq |-> IF BytesLe(t, lt) /\ t # lt THEN BumpClockSeq(cs) ELSE cs] :
         t \in {BytesAdd(BytesDiv(nano, 100), OFFSETNS)} })

\* getTimestampV1 on the clock reading nano: what it returns and what it
\* leaves in lastTime and clockSeq
getTimestampV1(nano, lt, cs) ==
  Only({ [t |-> t, lastTime |-> t, clockSeq |-> IF BytesLe(t, lt) THEN BumpClockSeq(cs) ELSE cs] :
         t \in {BytesAdd(BytesDiv(nano, 100), OFFSETNS)} })

\* the version and variant bits or-ed in without the masks &= 0x0f, &= 0x3f
SetVersionBitsUnmasked(u, v) ==
  SetB(SetB(u, 6, BitOr(B(u, 6), v)), 8, BitOr(B(u, 8), 128))

\* u.u[6] &= 0x0f; u.u[6] |= v; u.u[8] &= 0x3f; u.u[8] |= 0x80
SetVersionBits(u, v) ==
  Only({ SetB(u6, 8, BitOr(BitAnd(B(u6, 8), 63), 128)) :
         u6 \in { SetB(w, 6, BitOr(BitAnd(B(w, 6), 15), v)) : w \in {u} } })

\* GenerateV1 with (ts >> 48) & (0x0FFF | 0x1000) for (ts >> 48) & 0x0FFF | 0x1000
GenerateV1MaskedVersion(u, ts, cs, node) ==
  LET w    == LowBytes(ts, 4)
      tmid == LowBytes(BytesAnd(BytesShr(ts, 32), Int64(65535)), 2)
      thi  == LowBytes(BytesAnd(BytesShr(ts, 48), Int64(8191)), 2)
      c    == BitOr(BitAnd(cs, 16383), 32768)
  IN  CopyAt(<<w[1], w[2], w[3], w[4], tmid[1], tmid[2], thi[1], thi[2],
               (c \div 256) % 256, c % 256, u[11], u[12], u[13], u[14], u[15], u[16]>>,
             10, node)

\* the body of GenerateV1 after getTimestampV1 returned ts
GenerateV1(u, ts, cs, node) ==
  Only({ CopyAt(
           SetB(SetB(                                        \* u.u[8], u.u[9]
             SetB(SetB(                                      \* u.u[6], u.u[7]
               SetB(SetB(                                    \* u.u[4], u.u[5]
                 SetB(SetB(SetB(SetB(u,                      \* u.u[0] .. u.u[3]
                   0, ToByte(BytesShr(w, 24))), 1, ToByte(BytesShr(w, 16))),
                   2, ToByte(BytesShr(w, 8))), 3, ToByte(w)),
                 4, ToByte(BytesShr(tmid, 8))), 5, ToByte(tmid)),
               6, ToByte(BytesShr(thi, 8))), 7, ToByte(thi)),
             8, (c \div 256) % 256), 9, c % 256),
           10, node) :
         w    \in {LowBytes(ts, 4)},
         tmid \in {LowBytes(BytesAnd(BytesShr(ts, 32), Int64(65535)), 2)},
         thi  \in {LowBytes(BytesOr(BytesAnd(BytesShr(ts, 48), Int64(4095)), Int64(4096)), 2)},
         c    \in {BitOr(BitAnd(cs, 16383), 32768)} })

\* the body of GenerateV3
GenerateV3(u, ns, name) ==
  IF Len(ns) # 16 \/ Len(name) = 0 THEN u
  ELSE SetVersionBits(Copy(u, md5Digest(ns, name)), 48)

\* the body of GenerateV5
GenerateV5(u, ns, name) ==
  IF Len(ns) # 16 \/ Len(name) = 0 THEN u
  ELSE SetVersionBits(Copy(u, sha1Digest(ns, name)), 80)

\* the body of GenerateV4, rnd being what rand.Read delivers
GenerateV4(u, rnd) == SetVersionBits(Copy(u, rnd), 64)

\* initNodeId, rnd being what rand.Read delivers
initNodeId(rnd) == [rnd EXCEPT ![6] = BitOr(rnd[6], 1)]

\* initClockSeq, cs being what rand.Read delivers
initClockSeq(cs) == BitAnd((cs[2] + ((cs[1] * 256) % 65536)) % 65536, 16383)

(***************************************************************************)
(* State.                                                                  *)
(***************************************************************************)
VARIABLES
  uuidMtx,    \* the goroutine holding the mutex, or "free"
  lastTime,   \* int64
  clockSeq,   \* uint16
  nodeId,     \* [6]byte
  mem,        \* the contents of every UUID and Namespace variable
  pc,         \* where each goroutine is in its call
  frame,      \* the call each goroutine is in, or has made last
  ret,        \* what the last completed call of each goroutine returned
  nV1,        \* the number of GenerateV1 calls made so far
  pinned      \* observer: one generated identifier, remembered for comparison

vars == <<uuidMtx, lastTime, clockSeq, nodeId, mem, pc, frame, ret, nV1, pinned>>

NoFrame ==
  [op |-> "none", pkg |-> FALSE, recv |-> "", ns |-> <<>>, name |-> <<>>, s |-> <<>>,
   ts |-> <<>>]

NoRet == [kind |-> "none", id |-> <<>>, str |-> <<>>, n |-> 0, err |-> FALSE, ptr |-> ""]

NoPin ==
  [op |-> "none", ns |-> <<>>, name |-> <<>>, id |-> <<>>, between |-> FALSE,
   again |-> FALSE, agree |-> TRUE, dup |-> FALSE]

InitMem ==
  [v \in Goroutines \cup Globals |->
     CASE v = "Namespace_DNS"  -> InitNamespace_DNS
       [] v = "Namespace_URL"  -> InitNamespace_URL
       [] v = "Namespace_OID"  -> InitNamespace_OID
       [] v = "Namespace_X500" -> InitNamespace_X500
       [] OTHER -> ZeroUUID]

\* the state after func init(): initNodeId(), initClockSeq(); the two reads of
\* the random source deliver fills of the same kind
Init ==
  /\ DigestsChecked
  /\ uuidMtx = "free"
  /\ lastTime = Int64(0)
  /\ \E kind \in RandKinds :
       /\ nodeId = initNodeId(RandFill(kind, 6))
       /\ clockSeq = initClockSeq(RandFill(kind, 2))
  /\ mem = InitMem
  /\ pc = [g \in Goroutines |-> "idle"]
  /\ frame = [g \in Goroutines |-> NoFrame]
  /\ ret = [g \in Goroutines |-> NoRet]
  /\ nV1 = 0
  /\ pinned = NoPin

Generators == {"V1", "V3", "V4", "V5"}
NameBased == {"V3", "V5"}

(***************************************************************************)
(* A call of a generator by goroutine g: the method u.GenerateVn(...) on   *)
(* the variable recv, or the package-level function GenerateVn(...), which *)
(* declares a fresh zero UUID, runs the method on it and returns it (the   *)
(* fresh variable is the caller's local here).  The first two statements   *)
(* of every generator are defer uuidMtx.Unlock() and uuidMtx.Lock().       *)
(***************************************************************************)
CallGenerate(g, op, pkg, recv, ns, name) ==
  /\ pc[g] = "idle"
  /\ op \in Generators
  /\ pkg => recv = g
  /\ frame' = [frame EXCEPT ![g] =
                 [NoFrame EXCEPT !.op = op, !.pkg = pkg, !.recv = recv,
                                 !.ns = IF op \in NameBased THEN ns ELSE <<>>,
                                 !.name = IF op \in NameBased THEN name ELSE <<>>]]
  /\ mem' = IF pkg THEN [mem EXCEPT ![recv] = ZeroUUID] ELSE mem
  /\ pc' = [pc EXCEPT ![g] = "lock"]
  /\ ret' = [ret EXCEPT ![g] = NoRet]
  /\ nV1' = IF op = "V1" THEN nV1 + 1 ELSE nV1
  /\ UNCHANGED <<uuidMtx, lastTime, clockSeq, nodeId, pinned>>

\* the generator goes on without uuidMtx.Lock()
LockSkipped(g) ==
  /\ pc[g] = "lock"
  /\ pc' = [pc EXCEPT ![g] = "body"]
  /\ UNCHANGED <<uuidMtx, lastTime, clockSeq, nodeId, mem, frame, ret, nV1, pinned>>

\* a Lock() that takes the mutex without waiting for it to be free
LockNoWait(g) ==
  /\ pc[g] = "lock"
  /\ uuidMtx' = g
  /\ pc' = [pc EXCEPT ![g] = "body"]
  /\ UNCHANGED <<lastTime, clockSeq, nodeId, mem, frame, ret, nV1, pinned>>

\* uuidMtx.Lock()
Lock(g) ==
  /\ pc[g] = "lock"
  /\ uuidMtx = "free"
  /\ uuidMtx' = g
  /\ pc' = [pc EXCEPT ![g] = "body"]
  /\ UNCHANGED <<lastTime, clockSeq, nodeId, mem, frame, ret, nV1, pinned>>

\* ts := getTimestampV1(), the clock reading nano
StampV1(g, nano) ==
  /\ pc[g] = "body"
  /\ frame[g].op = "V1"
  /\ \E r \in {getTimestampV1(nano, lastTime, clockSeq)} :
       /\ lastTime' = r.lastTime
       /\ clockSeq' = r.clockSeq
       /\ frame' = [frame EXCEPT ![g].ts = r.t]
  /\ pc' = [pc EXCEPT ![g] = "pack"]
  /\ UNCHANGED <<uuidMtx, nodeId, mem, ret, nV1, pinned>>

\* the rest of GenerateV1: the sixteen bytes are written
PackV1(g) ==
  /\ pc[g] = "pack"
  /\ mem' = [mem EXCEPT ![frame[g].recv] = GenerateV1(@, frame[g].ts, clockSeq, nodeId)]
  /\ pc' = [pc EXCEPT ![g] = "unlock"]
  /\ UNCHANGED <<uuidMtx, lastTime, clockSeq, nodeId, frame, ret, nV1, pinned>>

\* GenerateV3 with uuidMtx.Unlock() at the end of the body and not deferred:
\* the early return on an empty name leaves without it
BodyV3UnlockNotDeferred(g) ==
  /\ pc[g] = "body"
  /\ frame[g].op = "V3"
  /\ mem' = [mem EXCEPT ![frame[g].recv] = GenerateV3(@, frame[g].ns, frame[g].name)]
  /\ pc' = [pc EXCEPT ![g] = IF frame[g].name = EmptyName THEN "idle" ELSE "unlock"]
  /\ UNCHANGED <<uuidMtx, lastTime, clockSeq, nodeId, frame, ret, nV1, pinned>>

BodyV3(g) ==
  /\ pc[g] = "body"
  /\ frame[g].op = "V3"
  /\ mem' = [mem EXCEPT ![frame[g].recv] = GenerateV3(@, frame[g].ns, frame[g].name)]
  /\ pc' = [pc EXCEPT ![g] = "unlock"]
  /\ UNCHANGED <<uuidMtx, lastTime, clockSeq, nodeId, frame, ret, nV1, pinned>>

BodyV5(g) ==
  /\ pc[g] = "body"
  /\ frame[g].op = "V5"
  /\ mem' = [mem EXCEPT ![frame[g].recv] = GenerateV5(@, frame[g].ns, frame[g].name)]
  /\ pc' = [pc EXCEPT ![g] = "unlock"]
  /\ UNCHANGED <<uuidMtx, lastTime, clockSeq, nodeId, frame, ret, nV1, pinned>>

BodyV4(g, rnd) ==
  /\ pc[g] = "body"
  /\ frame[g].op = "V4"
  /\ mem' = [mem EXCEPT ![frame[g].recv] = GenerateV4(@, rnd)]
  /\ pc' = [pc EXCEPT ![g] = "unlock"]
  /\ UNCHANGED <<uuidMtx, lastTime, clockSeq, nodeId, frame, ret, nV1, pinned>>

(***************************************************************************)
(* The observer.  It may remember one identifier as a generator returns it *)
(* (pin), with the call that made it.  When a later call returns, it notes *)
(* whether that call had the same version, namespace and name (again) and  *)
(* then whether the identifier was the same (agree); whether another       *)
(* generator call came between the two (between); and whether a later      *)
(* GenerateV1 call returned the remembered version-1 identifier (dup).     *)
(***************************************************************************)
Observe(p, f, id, pin) ==
  IF f.op = "V4" \/ (f.op \in NameBased /\ f.name = EmptyName)
  THEN IF p.op = "none" \/ p.again THEN p ELSE [p EXCEPT !.between = TRUE]
  ELSE IF p.op = "none"
       THEN IF pin THEN [NoPin EXCEPT !.op = f.op, !.ns = f.ns, !.name = f.name, !.id = id]
            ELSE p
       ELSE IF p.op = f.op /\ p.ns = f.ns /\ p.name = f.name
            THEN IF f.op \in NameBased
                 THEN [p EXCEPT !.again = TRUE, !.agree = p.agree /\ id = p.id]
                 ELSE [p EXCEPT !.again = TRUE, !.dup = p.dup \/ (f.op = "V1" /\ id = p.id)]
            ELSE IF p.again THEN p ELSE [p EXCEPT !.between = TRUE]

\* the deferred uuidMtx.Unlock() runs and the call returns
Unlock(g, pin) ==
  /\ pc[g] = "unlock"
  /\ uuidMtx' = "free"
  /\ pc' = [pc EXCEPT ![g] = "idle"]
  /\ ret' = [ret EXCEPT ![g] =
               IF frame[g].pkg THEN [NoRet EXCEPT !.kind = "uuid", !.id = mem[frame[g].recv]]
               ELSE NoRet]
  /\ pinned' = Observe(pinned, frame[g], mem[frame[g].recv], pin)
  /\ UNCHANGED <<lastTime, clockSeq, nodeId, mem, frame, nV1>>

(***************************************************************************)
(* The calls that take no lock.                                            *)
(***************************************************************************)
\* s := u.String()
CallString(g, recv) ==
  /\ pc[g] = "idle"
  /\ frame' = [frame EXCEPT ![g] = [NoFrame EXCEPT !.op = "String", !.recv = recv]]
  /\ ret' = [ret EXCEPT ![g] = [NoRet EXCEPT !.kind = "string", !.str = String(mem[recv])]]
  /\ UNCHANGED <<uuidMtx, lastTime, clockSeq, nodeId, mem, pc, nV1, pinned>>

\* v := u.Version()
CallVersion(g, recv) ==
  /\ pc[g] = "idle"
  /\ frame' = [frame EXCEPT ![g] = [NoFrame EXCEPT !.op = "Version", !.recv = recv]]
  /\ ret' = [ret EXCEPT ![g] = [NoRet EXCEPT !.kind = "byte", !.n = Version(mem[recv])]]
  /\ UNCHANGED <<uuidMtx, lastTime, clockSeq, nodeId, mem, pc, nV1, pinned>>

\* failed := u.Parse(s)
CallParse(g, recv, s) ==
  /\ pc[g] = "idle"
  /\ LET r == Parse(mem[recv], s)
     IN  /\ mem' = [mem EXCEPT ![recv] = r.u]
         /\ ret' = [ret EXCEPT ![g] = [NoRet EXCEPT !.kind = "bool", !.err = r.err]]
  /\ frame' = [frame EXCEPT ![g] = [NoFrame EXCEPT !.op = "Parse", !.recv = recv, !.s = s]]
  /\ UNCHANGED <<uuidMtx, lastTime, clockSeq, nodeId, pc, nV1, pinned>>

\* x, failed := Parse(s): var u UUID; err := u.Parse(s); return u, err
\* (the caller's local is left alone: the result is in ret)
CallPkgParse(g, s) ==
  /\ pc[g] = "idle"
  /\ LET r == Parse(ZeroUUID, s)
     IN  ret' = [ret EXCEPT ![g] = [NoRet EXCEPT !.kind = "parsed", !.id = r.u, !.err = r.err]]
  /\ frame' = [frame EXCEPT ![g] = [NoFrame EXCEPT !.op = "Parse", !.pkg = TRUE, !.recv = g, !.s = s]]
  /\ UNCHANGED <<uuidMtx, lastTime, clockSeq, nodeId, mem, pc, nV1, pinned>>

(***************************************************************************)
(* The methods of Namespace (type Namespace UUID): each converts its       *)
(* receiver to *UUID and delegates.  ns names one of the package's         *)
(* namespace variables.                                                    *)
(***************************************************************************)
\* failed := ns.Parse(s)
NamespaceParse(g, ns, s) == ns \in Namespaces /\ CallParse(g, ns, s)

\* s := ns.String()
NamespaceString(g, ns) == ns \in Namespaces /\ CallString(g, ns)

\* p := ns.UUID(): a pointer to the namespace variable itself
NamespaceUUID(g, ns) ==
  /\ ns \in Namespaces
  /\ pc[g] = "idle"
  /\ frame' = [frame EXCEPT ![g] = [NoFrame EXCEPT !.op = "UUID", !.recv = ns]]
  /\ ret' = [ret EXCEPT ![g] = [NoRet EXCEPT !.kind = "ptr", !.ptr = ns]]
  /\ UNCHANGED <<uuidMtx, lastTime, clockSeq, nodeId, mem, pc, nV1, pinned>>

(***************************************************************************)
(* Strings given to Parse: the two strings of the package's tests, the nil *)
(* string, and strings that differ from them in one place.                 *)
(***************************************************************************)
TextV1 ==
  <<
     "d", "1", "7", "2", "3", "8", "9", "4", "-", "5", "f", "e",
     "7", "-", "1", "1", "e", "7", "-", "9", "0", "7", "b", "-",
     "a", "6", "0", "0", "6", "a", "d", "3", "d", "b", "a", "0"
  >>

TextV4 ==
  <<
     "0", "f", "2", "a", "8", "c", "a", "7", "-", "7", "c", "a",
     "0", "-", "4", "f", "4", "3", "-", "b", "7", "1", "a", "-",
     "d", "9", "c", "b", "0", "4", "1", "b", "8", "9", "0", "a"
  >>

TextNil ==
  <<
     "0", "0", "0", "0", "0", "0", "0", "0", "-", "0", "0", "0",
     "0", "-", "0", "0", "0", "0", "-", "0", "0", "0", "0", "-",
     "0", "0", "0", "0", "0", "0", "0", "0", "0", "0", "0", "0"
  >>

TextNotAUUID ==
  <<
     "n", "o", "t", "-", "a", "-", "u", "u", "i", "d"
  >>

UpperOf(c) ==
  CASE c = "a" -> "A" [] c = "b" -> "B" [] c = "c" -> "C" [] c = "d" -> "D"
    [] c = "e" -> "E" [] c = "f" -> "F" [] OTHER -> c

\* s with the character at position k left out
Without(s, k) == SubSeq(s, 1, k - 1) \o SubSeq(s, k + 1, Len(s))

Variants(s) ==
  { s,
    s \o <<"0">>,                      \* one character too many
    Without(s, 36),                    \* one character short
    Without(s, 9),                     \* the first hyphen missing
    [s EXCEPT ![1] = "g"],             \* no hex digit, first group
    [s EXCEPT ![30] = "g"],            \* no hex digit, last group
    [s EXCEPT ![1] = " "],             \* a space for the first digit
    [i \in 1..Len(s) |-> UpperOf(s[i])] }

ParseInputs == Variants(TextV1) \cup {TextV4, TextNil, TextNotAUUID}

(***************************************************************************)
(* Specifications.                                                         *)
(***************************************************************************)
\* the generator calls a goroutine may start on the variable recv
StartGenerate(g, recv, maxCalls, forms, nss, names) ==
  \E op \in Generators, pkg \in forms, ns \in nss, name \in names :
    /\ op = "V1" => nV1 < maxCalls
    /\ op \notin NameBased => (ns = InitNamespace_DNS /\ name = EmptyName)
    /\ CallGenerate(g, op, pkg, recv, ns, name)

\* what a goroutine may hand to Parse: an input string, or the string that
\* String() has just returned to it
Texts(g) == ParseInputs \cup (IF ret[g].kind = "string" THEN {ret[g].str} ELSE {})

\* Spec: one goroutine calls the generators, in both forms, on its local
\* variable
Next ==
  \E g \in {"g1"} :
    \/ StartGenerate(g, g, MaxV1Calls, BOOLEAN, NsInputs, Names)
    \/ Lock(g)
    \/ \E nano \in NanoReadings(MaxClockStep) : StampV1(g, nano)
    \/ PackV1(g)
    \/ BodyV3(g)
    \/ BodyV5(g)
    \/ \E rnd \in RandRead(16) : BodyV4(g, rnd)
    \/ \E pin \in BOOLEAN : (pin => frame[g].op \in NameBased) /\ Unlock(g, pin)

\* bound: at most this many GenerateV1 calls in one behaviour of SpecCodec
CodecV1Calls == 1

\* SpecCodec: one goroutine generates identifiers into its local variable,
\* formats them and parses strings into it
NextCodec ==
  \E g \in {"g1"} :
    \/ StartGenerate(g, g, CodecV1Calls, {FALSE}, {InitNamespace_DNS}, {EmptyName, NameA})
    \/ Lock(g)
    \/ \E nano \in NanoReadings(MaxClockStep) : StampV1(g, nano)
    \/ PackV1(g)
    \/ BodyV3(g)
    \/ BodyV5(g)
    \/ \E rnd \in RandRead(16) : BodyV4(g, rnd)
    \/ Unlock(g, FALSE)
    \/ CallString(g, g)
    \/ CallVersion(g, g)
    \/ \E s \in Texts(g) : CallParse(g, g, s)
    \/ \E s \in Texts(g) : CallPkgParse(g, s)

\* bound: the GenerateV1 calls in one behaviour of SpecStuckClock, one more
\* than the values the 14-bit clock sequence takes
StuckV1Calls == 16385

\* SpecStuckClock: one goroutine calls u.GenerateV1() again and again while
\* the clock keeps returning one reading; the first identifier is remembered
NextStuckClock ==
  \E g \in {"g1"} :
    \/ nV1 < StuckV1Calls /\ CallGenerate(g, "V1", FALSE, g, <<>>, <<>>)
    \/ Lock(g)
    \/ \E nano \in NanoReadings(0) : StampV1(g, nano)
    \/ PackV1(g)
    \/ Unlock(g, TRUE)

\* the package's variables that SpecGlobals operates on
GlobalNs == {"Namespace_DNS", "Namespace_X500"}
GlobalTexts == {TextV1, [TextV1 EXCEPT ![30] = "g"], TextNotAUUID}

\* SpecGlobals: one goroutine works on the package's exported variables:
\* the methods of Namespace, the methods of UUID through the pointer that
\* ns.UUID() returned, and the methods of UUID on NilUUID
NextGlobals ==
  \E g \in {"g1"} :
    \/ \E ns \in GlobalNs : NamespaceUUID(g, ns)
    \/ \E ns \in GlobalNs : NamespaceString(g, ns)
    \/ \E ns \in GlobalNs, s \in GlobalTexts : NamespaceParse(g, ns, s)
    \/ ret[g].kind = "ptr" /\ CallGenerate(g, "V4", FALSE, ret[g].ptr, <<>>, <<>>)
    \/ ret[g].kind = "ptr" /\ CallVersion(g, ret[g].ptr)
    \/ CallGenerate(g, "V4", FALSE, "NilUUID", <<>>, <<>>)
    \/ \E s \in GlobalTexts : CallParse(g, "NilUUID", s)
    \/ CallString(g, "NilUUID")
    \/ Lock(g)
    \/ \E rnd \in {RandFill("mixed", 16)} : BodyV4(g, rnd)
    \/ Unlock(g, FALSE)

\* bound: the GenerateV1 calls in one behaviour of SpecConc
ConcV1Calls == 2

\* the steps of goroutine g inside a generator call, from uuidMtx.Lock() to
\* the deferred uuidMtx.Unlock()
GenerateStep(g, readings) ==
  \/ Lock(g)
  \/ \E nano \in readings : StampV1(g, nano)
  \/ PackV1(g)
  \/ BodyV3(g)
  \/ BodyV5(g)
  \/ \E rnd \in {RandFill("mixed", 16)} : BodyV4(g, rnd)
  \/ Unlock(g, FALSE)

\* SpecConc: two goroutines call the generators concurrently, each on its
\* own variable
NextConc ==
  \E g \in Goroutines :
    \/ StartGenerate(g, g, ConcV1Calls, {FALSE}, {InitNamespace_DNS}, {EmptyName, NameA})
    \/ GenerateStep(g, NanoReadings(MaxClockStep))

\* bound: the GenerateV1 calls in one behaviour of SpecConcFair
FairV1Calls == 1

\* SpecConcFair: two goroutines call the generators concurrently, the clock
\* standing still
NextConcFair ==
  \E g \in Goroutines :
    \/ StartGenerate(g, g, FairV1Calls, {FALSE}, {InitNamespace_DNS}, {EmptyName, NameA})
    \/ GenerateStep(g, NanoReadings(0))

Spec == Init /\ [][Next]_vars

SpecCodec == Init /\ [][NextCodec]_vars

SpecStuckClock == Init /\ [][NextStuckClock]_vars

SpecGlobals == Init /\ [][NextGlobals]_vars

SpecConc == Init /\ [][NextConc]_vars

\* a fair scheduler: a goroutine that can take a step of its call takes it
\* (WF), and a goroutine blocked in uuidMtx.Lock() gets the mutex if it is
\* free again and again (SF: sync.Mutex hands the mutex to a waiter and does
\* not starve it)
ConcFairness ==
  \A g \in Goroutines :
    /\ SF_vars(Lock(g))
    /\ WF_vars(GenerateStep(g, NanoReadings(0)))

\* the initial states in which the random source delivered the mixed fill
InitFair == Init /\ nodeId = initNodeId(RandFill("mixed", 6))

SpecConcFair == InitFair /\ [][NextConcFair]_vars /\ ConcFairness
(***************************************************************************)
(* Properties of the generators (Spec).                                    *)
(***************************************************************************)
\* C1: when GenerateV1, GenerateV4, or GenerateV3 / GenerateV5 with a
\* non-empty name has returned (method or package-level form, whatever the
\* receiver held), the identifier has the top two bits of byte 8 equal to
\* binary 10 and Version() equal to the requested version 1, 3, 4 or 5.
GeneratedBitsSet ==
  \A g \in Goroutines :
    (/\ pc[g] = "idle"
     /\ frame[g].op \in Generators
     /\ frame[g].op \in NameBased => frame[g].name # EmptyName)
    => LET id == IF frame[g].pkg THEN ret[g].id ELSE mem[frame[g].recv]
       IN  /\ Variant(id) = 2
           /\ Version(id) = (CASE frame[g].op = "V1" -> 1 [] frame[g].op = "V3" -> 3
                               [] frame[g].op = "V4" -> 4 [] frame[g].op = "V5" -> 5)

\* GenerateV4 has returned with a random fill of all ones: bytes 6 and 8 are
\* 0x4f and 0xbf
GeneratedBitsSetWitness ==
  \E g \in Goroutines :
    /\ pc[g] = "idle"
    /\ frame[g].op = "V4"
    /\ B(mem[frame[g].recv], 6) = 79
    /\ B(mem[frame[g].recv], 8) = 191
    /\ B(mem[frame[g].recv], 7) = 255

\* C2: no two GenerateV1 calls ever return the same identifier, for any
\* sequence of clock readings and however many identifiers have been issued:
\* no GenerateV1 call returns the identifier an earlier call returned.
V1NeverRepeats == pinned.op = "V1" => ~pinned.dup

\* C3: two calls of GenerateV3 (of GenerateV5) with the same namespace bytes
\* and the same non-empty name yield the same sixteen bytes, whatever the
\* clock, lastTime, clockSeq, nodeId, the calls made in between and the
\* previous contents of the receiver.
NameBasedDeterministic == pinned.op \in NameBased => pinned.agree

\* a GenerateV3 call was repeated after other generator calls, and agreed
NameBasedDeterministicWitness ==
  /\ pinned.op = "V3"
  /\ pinned.between
  /\ pinned.again
  /\ pinned.agree
  /\ \E g \in Goroutines : pc[g] = "idle" /\ ~frame[g].pkg /\ frame[g].op = "V3"

(***************************************************************************)
(* Properties of String, Version and Parse (SpecCodec).                    *)
(***************************************************************************)
\* s has 36 characters, hyphens at positions 9, 14, 19 and 24, and a
\* character of digits everywhere else
HasCanonicalShape(s, digits) ==
  /\ Len(s) = 36
  /\ \A i \in 1..36 : IF i \in {9, 14, 19, 24} THEN s[i] = "-" ELSE s[i] \in digits

LowerHexChars ==
  {"0", "1", "2", "3", "4", "5", "6", "7", "8", "9", "a", "b", "c", "d", "e", "f"}

\* C4: round trip: for every identifier x, the all-zero one included,
\* Parse(x.String()) reports no error and yields an identifier equal to x:
\* a Parse call given the string that String() has just returned for x
\* reports no failure and delivers x.
RoundTrip ==
  [][\A g \in Goroutines :
       (/\ ret[g].kind = "string"
        /\ frame'[g].op = "Parse"
        /\ frame'[g].s = ret[g].str)
       => /\ ~ret'[g].err
          /\ (IF frame'[g].pkg THEN ret'[g].id ELSE mem'[frame'[g].recv])
               = mem[frame[g].recv]]_vars

\* the package-level Parse has returned a version-5 identifier from the
\* string String() gave for the caller's variable, which holds that identifier
RoundTripWitness ==
  \E g \in Goroutines :
    /\ frame[g].op = "Parse"
    /\ frame[g].pkg
    /\ frame[g].s = String(mem[g])
    /\ Version(mem[g]) = 5
    /\ ret[g].id = mem[g]
    /\ ~ret[g].err

\* C5: for every canonical string s (32 lowercase hex digits grouped
\* 8-4-4-4-12), Parse of s reports no failure, String() of the parsed
\* identifier is s, and its Version() is the value of the first hex digit of
\* the third group of s.
CanonicalParses ==
  \A g \in Goroutines :
    (frame[g].op = "Parse" /\ HasCanonicalShape(frame[g].s, LowerHexChars))
    => LET x == IF frame[g].pkg THEN ret[g].id ELSE mem[frame[g].recv]
       IN  /\ ~ret[g].err
           /\ String(x) = frame[g].s
           /\ Version(x) = HexVal(frame[g].s[15])

\* u.Parse("0f2a8ca7-7ca0-4f43-b71a-d9cb041b890a") has returned and u is of
\* version 4
CanonicalParsesWitness ==
  \E g \in Goroutines :
    /\ frame[g].op = "Parse"
    /\ ~frame[g].pkg
    /\ frame[g].s = TextV4
    /\ Version(mem[g]) = 4
    /\ B(mem[g], 15) = 10

\* C6: String() returns 36 characters: the sixteen bytes in order, each as
\* two lowercase hex digits, a hyphen after bytes 4, 6, 8 and 10, no
\* uppercase letter and no brace; String() of the all-zero identifier is
\* "00000000-0000-0000-0000-000000000000" and its Version() is 0.
StringIsCanonical ==
  \A g \in Goroutines :
    /\ ret[g].kind = "string" =>
         LET s == ret[g].str
             u == mem[frame[g].recv]
             at(i) == 2 * i + 1 + (IF i >= 4 THEN 1 ELSE 0) + (IF i >= 6 THEN 1 ELSE 0)
                        + (IF i >= 8 THEN 1 ELSE 0) + (IF i >= 10 THEN 1 ELSE 0)
         IN  /\ HasCanonicalShape(s, LowerHexChars)
             /\ \A i \in 0..15 :
                  16 * HexVal(s[at(i)]) + HexVal(s[at(i) + 1]) = B(u, i)
             /\ u = ZeroUUID => s = TextNil
    /\ (ret[g].kind = "byte" /\ mem[frame[g].recv] = ZeroUUID) => ret[g].n = 0

\* String() has returned "d1723894-5fe7-11e7-907b-a6006ad3dba0"
StringIsCanonicalWitness ==
  \E g \in Goroutines : ret[g].kind = "string" /\ ret[g].str = TextV1

\* C7: Parse signals failure for every string that is not exactly the
\* canonical pattern (36 characters, 32 hex digits, hyphens at the fixed
\* positions), and signals no failure for a canonical string.
ParseRejectsExactly ==
  \A g \in Goroutines :
    frame[g].op = "Parse" => (ret[g].err <=> ~HasCanonicalShape(frame[g].s, HexChars))

\* C8: when Parse fails, the sixteen bytes of the receiver are what they were
\* before the call.
FailedParseKeepsReceiver ==
  [][\A g \in Goroutines :
       (/\ pc[g] = "idle"
        /\ frame'[g].op = "Parse"
        /\ ~frame'[g].pkg
        /\ ret'[g].err)
       => mem'[frame'[g].recv] = mem[frame'[g].recv]]_vars

\* C9: GenerateV3 and GenerateV5 called with an empty name surface a failure:
\* what the caller holds after the call (the returned failure indication and
\* the identifier) is never what a successful generation of that version
\* leaves: an identifier with the variant bits and the requested version.
EmptyNameSurfaced ==
  \A g \in Goroutines :
    (pc[g] = "idle" /\ frame[g].op \in NameBased /\ frame[g].name = EmptyName)
    => LET id == IF frame[g].pkg THEN ret[g].id ELSE mem[frame[g].recv]
       IN  \/ ret[g].err
           \/ Variant(id) # 2
           \/ Version(id) # (IF frame[g].op = "V3" THEN 3 ELSE 5)

\* C10: after any sequence of calls of the public operations, the four
\* predefined namespaces hold their initial values and NilUUID is all zero.
GlobalsKeepValues == \A v \in Globals : mem[v] = InitMem[v]

\* C11: name-based discrimination: for GenerateV3, and likewise GenerateV5,
\* two calls whose (namespace, name) pairs differ (names non-empty) return
\* different identifiers: a call that returns after an identifier of the
\* same version was remembered, made for another pair, returns another one.
NameBasedDiscriminates ==
  \A g \in Goroutines :
    (/\ pc[g] = "idle"
     /\ pinned.op \in NameBased
     /\ frame[g].op = pinned.op
     /\ frame[g].name # EmptyName
     /\ <<frame[g].ns, frame[g].name>> # <<pinned.ns, pinned.name>>)
    => (IF frame[g].pkg THEN ret[g].id ELSE mem[frame[g].recv]) # pinned.id

\* GenerateV5(Namespace_URL, "a.com") has returned after the identifier of
\* GenerateV5(Namespace_DNS, "a.com") was remembered
NameBasedDiscriminatesWitness ==
  \E g \in Goroutines :
    /\ pc[g] = "idle"
    /\ pinned.op = "V5" /\ pinned.ns = InitNamespace_DNS /\ pinned.name = NameA
    /\ frame[g].op = "V5" /\ frame[g].ns = InitNamespace_URL /\ frame[g].name = NameA
    /\ frame[g].pkg
    /\ ret[g].id # pinned.id

\* C12: the clock-sequence rule of GenerateV1: with ts the clock reading of
\* a call and lastTime the value the previous call left, clockSeq becomes
\* (clockSeq + 1) mod 2^14 when ts <= lastTime and is unchanged when
\* ts > lastTime; in both cases lastTime becomes ts; and clockSeq is in
\* 0..16383 in every reachable state, the initial one included.
ClockSeqRule ==
  /\ [](clockSeq \in 0..16383)
  /\ [][\A g \in Goroutines :
          (pc[g] = "body" /\ pc'[g] = "pack")
          => /\ lastTime' = frame'[g].ts
             /\ clockSeq' = IF BytesLe(frame'[g].ts, lastTime)
                            THEN (clockSeq + 1) % 16384
                            ELSE clockSeq]_vars

\* a call has read the tick the previous call read, and clockSeq went from
\* 16383 (the initial value under an all-ones random fill) to 0
ClockSeqRuleWitness ==
  \E g \in Goroutines :
    /\ pc[g] = "pack"
    /\ nV1 = 2
    /\ nodeId[1] = 255
    /\ lastTime = frame[g].ts
    /\ clockSeq = 0

\* C14: the bit layout of a version-1 identifier: for a GenerateV1 call with
\* timestamp ts, clock sequence cs (after the bump step) and node id n, the
\* result is, big-endian, bytes 0-3 = ts mod 2^32, bytes 4-5 = (ts div 2^32)
\* mod 2^16, bytes 6-7 = 0x1000 + ((ts div 2^48) mod 2^12), bytes 8-9 =
\* 0x8000 + cs, bytes 10-15 = n.  (ts is held as its eight bytes, big-endian.)
V1Layout ==
  \A g \in Goroutines :
    (frame[g].op = "V1" /\ pc[g] = "unlock")
    => LET id == mem[frame[g].recv]
           ts == frame[g].ts
       IN  /\ <<id[1], id[2], id[3], id[4]>> = <<ts[5], ts[6], ts[7], ts[8]>>
           /\ <<id[5], id[6]>> = <<ts[3], ts[4]>>
           /\ 256 * id[7] + id[8] = 4096 + ((256 * ts[1] + ts[2]) % 4096)
           /\ 256 * id[9] + id[10] = 32768 + clockSeq
           /\ <<id[11], id[12], id[13], id[14], id[15], id[16]>> = nodeId

\* GenerateV1 is about to return an identifier that starts d1723894-5fe7-11e7
V1LayoutWitness ==
  \E g \in Goroutines :
    /\ frame[g].op = "V1" /\ pc[g] = "unlock"
    /\ SubSeq(mem[frame[g].recv], 1, 8) = <<209, 114, 56, 148, 95, 231, 17, 231>>
    /\ clockSeq = 12373
    /\ SubSeq(mem[frame[g].recv], 9, 10) = <<176, 85>>

\* C15: in every state after package initialization the least significant
\* bit of the first octet of the node id (nodeId[0], the multicast bit) is
\* 1, and byte 10 of every identifier GenerateV1 returns has its least
\* significant bit set.
MulticastBitSet ==
  /\ nodeId[1] % 2 = 1
  /\ \A g \in Goroutines :
       (frame[g].op = "V1" /\ pc[g] = "idle") => B(mem[frame[g].recv], 10) % 2 = 1

\* C16: the frame of the generation state: GenerateV3, GenerateV4,
\* GenerateV5, Parse, String and Version leave lastTime, clockSeq and nodeId
\* unchanged; only GenerateV1 writes lastTime and clockSeq, and only while
\* holding uuidMtx; nodeId is never written after initialization, so every
\* version-1 identifier carries the same node field, nodeId.
GenerationStateFrame ==
  /\ [][/\ nodeId' = nodeId
        /\ (lastTime' # lastTime \/ clockSeq' # clockSeq)
           => \E g \in Goroutines :
                /\ frame[g].op = "V1"
                /\ uuidMtx = g
                /\ pc[g] = "body" /\ pc'[g] = "pack"]_vars
  /\ [](\A g \in Goroutines :
          (frame[g].op = "V1" /\ pc[g] = "idle")
          => SubSeq(mem[frame[g].recv], 11, 16) = nodeId)

\* a Parse call has failed after a GenerateV1 call had set lastTime
GenerationStateFrameWitness ==
  \E g \in Goroutines :
    /\ frame[g].op = "Parse"
    /\ ret[g].err
    /\ lastTime # Int64(0)
    /\ nV1 = 1

(***************************************************************************)
(* Properties of concurrent calls (SpecConc).                              *)
(***************************************************************************)
\* C13: concurrent GenerateV1 calls are serialized by uuidMtx: at most one
\* call at a time is between uuidMtx.Lock() and the deferred Unlock(), and
\* it holds the mutex; no other call compares against lastTime between a
\* call's clock reading and its return (lastTime is still that reading);
\* and the clock sequence in bytes 8-9 of the identifier is the value
\* clockSeq has after that call's own compare-and-bump step.
MutexSerializes ==
  /\ \A g, h \in Goroutines :
       (g # h /\ pc[g] \in {"body", "pack", "unlock"}) => pc[h] \in {"idle", "lock"}
  /\ \A g \in Goroutines : pc[g] \in {"body", "pack", "unlock"} => uuidMtx = g
  /\ \A g \in Goroutines :
       (frame[g].op = "V1" /\ pc[g] \in {"pack", "unlock"}) => lastTime = frame[g].ts
  /\ \A g \in Goroutines :
       (frame[g].op = "V1" /\ pc[g] = "unlock")
       => 256 * B(mem[frame[g].recv], 8) + B(mem[frame[g].recv], 9) = 32768 + clockSeq

\* the second GenerateV1 call is about to return an identifier with a bumped
\* clock sequence while the goroutine that made the first call waits for
\* the mutex in a GenerateV3 call
MutexSerializesWitness ==
  /\ pc["g1"] = "lock" /\ frame["g1"].op = "V3"
  /\ pc["g2"] = "unlock" /\ frame["g2"].op = "V1"
  /\ nV1 = 2
  /\ Version(mem["g1"]) = 1
  /\ 256 * B(mem["g2"], 8) + B(mem["g2"], 9) = 32768 + ((256 * B(mem["g1"], 8) + B(mem["g1"], 9) + 1) % 16384)

\* C17: under any interleaving of concurrent generator calls with a fair
\* scheduler, every call eventually returns, with uuidMtx released by it
\* when it returns (the early return of GenerateV3 / GenerateV5 on an empty
\* name included); the mutex is free whenever no call is past
\* uuidMtx.Lock(); and whenever a call is in progress some call can take a
\* step (no deadlock).
GeneratorsReturn ==
  /\ \A g \in Goroutines : (pc[g] # "idle") ~> (pc[g] = "idle")
  /\ [](\A g \in Goroutines : pc[g] = "idle" => uuidMtx # g)
  /\ []((\A g \in Goroutines : pc[g] \in {"idle", "lock"}) => uuidMtx = "free")
  /\ []((\E g \in Goroutines : pc[g] # "idle") => ENABLED (\E g \in Goroutines : GenerateStep(g, NanoReadings(0))))

\* a GenerateV5 call with an empty name holds the mutex while the other
\* goroutine waits for it in a GenerateV1 call
GeneratorsReturnWitness ==
  /\ pc["g1"] = "lock" /\ frame["g1"].op = "V1"
  /\ pc["g2"] = "unlock" /\ frame["g2"].op = "V5" /\ frame["g2"].name = EmptyName
  /\ uuidMtx = "g2"
=============================================================================
